---- MODULE Spec2Model ----
(***************************************************************************)
(* Model of hydra_example.py: the pydantic schema (BaseConfig, DataConfig,  *)
(* ModelConfig, ProjectConfig) and the entry point main.                    *)
(*                                                                         *)
(* Untyped values are what the loader (YAML through OmegaConf) can hold:    *)
(* strings, integers, floats, null, nested mappings and interpolations.     *)
(* A string is a sequence of one-character strings, so that parsing a date  *)
(* or an integer out of it is computed, not assumed.  Typed values are the  *)
(* ones validation produces: Path, date and the three model classes.        *)
(***************************************************************************)
EXTENDS Integers, Sequences, FiniteSets, TLC

VARIABLES
    pc,         \* position in main, or "record" once a record is being mutated
    cla,        \* the name cla of main: the loaded tree, then the ProjectConfig
    input,      \* the mapping handed to ProjectConfig(**cla) (NoValue before)
    log,        \* the logging calls made so far, in order
    failure,    \* the exception that ended the run / the last assignment
    attempts,   \* how many times ProjectConfig(**cla) was evaluated
    op          \* the last attribute assignment attempted on the record

vars == <<pc, cla, input, log, failure, attempts, op>>

----------------------------------------------------------------------------
(* Values *)

Str(s) == [t |-> "str", s |-> s]
IntV(n) == [t |-> "int", n |-> n]
FloatV(num, den) == [t |-> "float", num |-> num, den |-> den]
NoneV == [t |-> "none"]
Dict(d) == [t |-> "dict", d |-> d]
Interp(ref) == [t |-> "interp", ref |-> ref]
PathV(s) == [t |-> "path", s |-> s]
DateV(y, m, d) == [t |-> "date", y |-> y, m |-> m, d |-> d]
Instance(cls, f) == [t |-> cls, f |-> f]

NoValue == [t |-> "unset"]
EmptyMap == [k \in {} |-> NoneV]

S_DB == <<"D", "B">>
S_SAP == <<"S", "A", "P">>

----------------------------------------------------------------------------
(* The filesystem the path validators look at *)

P_DIR == <<"d", "a", "t", "a">>
P_FILE == <<"a", ".", "c", "s", "v">>
P_FIFO == <<"p", "i", "p", "e">>
P_GONE == <<"n", "o">>

is_dir(s) == s = P_DIR
is_file(s) == s = P_FILE
exists(s) == s \in {P_DIR, P_FILE, P_FIFO}

----------------------------------------------------------------------------
(* Validation results: the set of errors (location, kind) and the value *)

Err(loc, type) == [loc |-> loc, type |-> type]
Ok(v) == [errs |-> {}, val |-> v]
Fail(type) == [errs |-> {Err(<<>>, type)}, val |-> NoValue]
Under(loc, errs) == {Err(loc \o e.loc, e.type) : e \in errs}

----------------------------------------------------------------------------
(* Field types of DataConfig and ModelConfig (lax mode, Python input) *)

DigitVal ==
    ("0" :> 0) @@ ("1" :> 1) @@ ("2" :> 2) @@ ("3" :> 3) @@ ("4" :> 4) @@
    ("5" :> 5) @@ ("6" :> 6) @@ ("7" :> 7) @@ ("8" :> 8) @@ ("9" :> 9)

IsDigits(s, from, to) == \A i \in from..to : s[i] \in DOMAIN DigitVal

RECURSIVE Number(_, _, _)
Number(s, from, to) ==
    IF to < from THEN 0 ELSE 10 * Number(s, from, to - 1) + DigitVal[s[to]]

IsLeap(y) == (y % 4 = 0 /\ y % 100 # 0) \/ y % 400 = 0

DaysInMonth(y, m) ==
    CASE m = 2 -> IF IsLeap(y) THEN 29 ELSE 28
      [] m \in {4, 6, 9, 11} -> 30
      [] OTHER -> 31

\* (mutant) a literal that takes any string
Literal_any_string(v) ==
    IF v.t = "str" THEN Ok(v) ELSE Fail("literal_error")

\* data_format: Literal["DB", "SAP"]
Literal(v) ==
    IF v.t = "str" /\ v.s \in {S_DB, S_SAP} THEN Ok(v) ELSE Fail("literal_error")

\* Path: a string (or a Path) becomes a Path
Path(v) ==
    CASE v.t = "str" -> Ok(PathV(v.s))
      [] v.t = "path" -> Ok(v)
      [] OTHER -> Fail("path_type")

DirectoryPath(v) ==
    LET p == Path(v)
    IN  IF p.errs # {} THEN p
        ELSE IF is_dir(p.val.s) THEN p ELSE Fail("path_not_directory")

FilePath(v) ==
    LET p == Path(v)
    IN  IF p.errs # {} THEN p
        ELSE IF is_file(p.val.s) THEN p ELSE Fail("path_not_file")

\* (mutant) a plain Path, never looked up on the filesystem
Path_unchecked(v) == Path(v)

\* (mutant) the directory member alone
DirectoryPath_only(v) == DirectoryPath(v)

\* input_path: DirectoryPath | FilePath
DirectoryPath_or_FilePath(v) ==
    LET a == DirectoryPath(v)
        b == FilePath(v)
    IN  IF a.errs = {} THEN a
        ELSE IF b.errs = {} THEN b
        ELSE [errs |-> Under(<<"DirectoryPath">>, a.errs)
                         \cup Under(<<"FilePath">>, b.errs),
              val |-> NoValue]

\* (mutant) a date read as YYYY-DD-MM
date_day_first(v) ==
    CASE v.t = "date" -> Ok(v)
      [] v.t = "str" ->
           LET s == v.s
           IN  IF /\ Len(s) = 10
                  /\ s[5] = "-" /\ s[8] = "-"
                  /\ IsDigits(s, 1, 4) /\ IsDigits(s, 6, 7) /\ IsDigits(s, 9, 10)
               THEN LET y == Number(s, 1, 4)
                        d == Number(s, 6, 7)
                        m == Number(s, 9, 10)
                    IN  IF m \in 1..12 /\ d \in 1..DaysInMonth(y, m)
                        THEN Ok(DateV(y, m, d))
                        ELSE Fail("date_from_datetime_parsing")
               ELSE Fail("date_from_datetime_parsing")
      [] OTHER -> Fail("date_type")

\* start_date: date.  A string must read YYYY-MM-DD and name a calendar day.
date(v) ==
    CASE v.t = "date" -> Ok(v)
      [] v.t = "str" ->
           LET s == v.s
           IN  IF /\ Len(s) = 10
                  /\ s[5] = "-" /\ s[8] = "-"
                  /\ IsDigits(s, 1, 4) /\ IsDigits(s, 6, 7) /\ IsDigits(s, 9, 10)
               THEN LET y == Number(s, 1, 4)
                        m == Number(s, 6, 7)
                        d == Number(s, 9, 10)
                    IN  IF m \in 1..12 /\ d \in 1..DaysInMonth(y, m)
                        THEN Ok(DateV(y, m, d))
                        ELSE Fail("date_from_datetime_parsing")
               ELSE Fail("date_from_datetime_parsing")
      [] OTHER -> Fail("date_type")

\* window, num_estimators, max_depth: int.  Lax mode also takes a string of
\* digits and a float without a fractional part, and stores the integer.
int(v) ==
    CASE v.t = "int" -> Ok(v)
      [] v.t = "str" ->
           IF Len(v.s) > 0 /\ IsDigits(v.s, 1, Len(v.s))
           THEN Ok(IntV(Number(v.s, 1, Len(v.s))))
           ELSE Fail("int_parsing")
      [] v.t = "float" ->
           IF v.num % v.den = 0 THEN Ok(IntV(v.num \div v.den))
           ELSE Fail("int_from_float")
      [] OTHER -> Fail("int_type")

----------------------------------------------------------------------------
(* The models *)

DataConfigFields ==
    << <<"data_format", "Literal">>,
       <<"input_path", "DirectoryPath|FilePath">>,
       <<"start_date", "date">>,
       <<"window", "int">> >>

ModelConfigFields ==
    << <<"num_estimators", "int">>, <<"max_depth", "int">> >>

ProjectConfigFields ==
    << <<"data", "DataConfig">>, <<"model", "ModelConfig">> >>

FieldNames(fields) == {fields[i][1] : i \in 1..Len(fields)}

\* (mutant) extra="ignore"
extra_ignored(fields, d) == {}

\* extra="forbid": every key of the input that is no declared field
extra_forbidden(fields, d) ==
    {Err(<<k>>, "extra_forbidden") : k \in DOMAIN d \ FieldNames(fields)}

\* (mutant) a field left out is passed over
missing_defaulted(name) == {}

\* a required field that the input does not hold (no field has a default)
missing(name) == Under(<<name>>, Fail("missing").errs)

RECURSIVE validate(_, _)

\* (mutant) validation that stops at the first field in error
RECURSIVE validate_fields_first_error(_, _, _)
validate_fields_first_error(fields, d, i) ==
    IF i > Len(fields) THEN [errs |-> {}, vals |-> EmptyMap]
    ELSE LET name == fields[i][1]
             r == IF name \in DOMAIN d THEN validate(fields[i][2], d[name])
                  ELSE Fail("missing")
         IN  IF r.errs # {}
             THEN [errs |-> Under(<<name>>, r.errs), vals |-> EmptyMap]
             ELSE LET rest == validate_fields_first_error(fields, d, i + 1)
                  IN  [errs |-> rest.errs, vals |-> (name :> r.val) @@ rest.vals]

\* The fields from the i-th on, in declaration order: every field is
\* validated and its errors kept, whatever the fields before it did.
RECURSIVE validate_fields(_, _, _)
validate_fields(fields, d, i) ==
    IF i > Len(fields) THEN [errs |-> {}, vals |-> EmptyMap]
    ELSE LET name == fields[i][1]
             rest == validate_fields(fields, d, i + 1)
         IN  IF name \in DOMAIN d
             THEN LET r == validate(fields[i][2], d[name])
                  IN  [errs |-> Under(<<name>>, r.errs) \cup rest.errs,
                       vals |-> (name :> r.val) @@ rest.vals]
             ELSE [errs |-> missing(name) \cup rest.errs,
                   vals |-> rest.vals]

\* A model class applied to a value: a mapping is validated field by field
\* and then searched for extra keys; an instance of the class is taken as is.
BaseConfig(cls, fields, v) ==
    CASE v.t = "dict" ->
           LET r == validate_fields(fields, v.d, 1)
               errs == r.errs \cup extra_forbidden(fields, v.d)
           IN  IF errs = {} THEN Ok(Instance(cls, r.vals))
               ELSE [errs |-> errs, val |-> NoValue]
      [] v.t = cls -> Ok(v)
      [] OTHER -> Fail("model_type")

DataConfig(v) == BaseConfig("DataConfig", DataConfigFields, v)
ModelConfig(v) == BaseConfig("ModelConfig", ModelConfigFields, v)

validate(type, v) ==
    CASE type = "Literal" -> Literal(v)
      [] type = "DirectoryPath|FilePath" -> DirectoryPath_or_FilePath(v)
      [] type = "date" -> date(v)
      [] type = "int" -> int(v)
      [] type = "DataConfig" -> DataConfig(v)
      [] type = "ModelConfig" -> ModelConfig(v)

\* ProjectConfig(**kwargs)
ProjectConfig(kwargs) == BaseConfig("ProjectConfig", ProjectConfigFields, Dict(kwargs))

----------------------------------------------------------------------------
(* The loader's side: interpolations and the text dump *)

\* the node of v at the key path ref, NoValue when there is none
RECURSIVE select(_, _)
select(v, ref) ==
    IF ref = <<>> THEN v
    ELSE IF v.t = "dict" /\ Head(ref) \in DOMAIN v.d
         THEN select(v.d[Head(ref)], Tail(ref))
         ELSE NoValue

\* the value an interpolation stands for, followed through other
\* interpolations; NoValue when a key is missing or the chain comes back
RECURSIVE resolve_value(_, _, _)
resolve_value(root, v, seen) ==
    IF v.t # "interp" THEN v
    ELSE IF v.ref \in seen THEN NoValue
    ELSE resolve_value(root, select(root, v.ref), seen \cup {v.ref})

RECURSIVE resolve_node(_, _)
resolve_node(root, v) ==
    IF v.t = "dict" THEN Dict([k \in DOMAIN v.d |-> resolve_node(root, v.d[k])])
    ELSE resolve_value(root, v, {})

RECURSIVE Holds(_, _)
Holds(v, tag) ==
    IF v.t = "dict" THEN \E k \in DOMAIN v.d : Holds(v.d[k], tag)
    ELSE v.t = tag

\* OmegaConf.resolve(cla)
resolve(tree) == resolve_node(tree, tree)

\* OmegaConf.to_yaml(cla): the text is kept as the document it is the dump of
to_yaml(tree) == [fmt |-> "yaml", doc |-> tree]

LogRecord(level, msg) == [level |-> level, msg |-> msg]
NoFailure == [kind |-> "none", errs |-> {}]
NoOp == [kind |-> "none"]

----------------------------------------------------------------------------
(* The trees the loader can hand to main *)

Absent == [t |-> "absent"]

DataFormatVals == {Str(S_DB), Str(S_SAP), Str(<<"C", "S", "V">>), Str(<<"d", "b">>)}
InputPathVals == {Str(P_DIR), Str(P_FILE), Str(P_FIFO), Str(P_GONE), IntV(5)}
StartDateVals ==
    {Str(<<"2", "0", "2", "0", "-", "0", "2", "-", "2", "9">>),
     Str(<<"2", "0", "1", "9", "-", "1", "2", "-", "3", "1">>),
     Str(<<"2", "0", "2", "1", "-", "0", "2", "-", "2", "9">>),
     Str(<<"s", "o", "o", "n">>),
     NoneV}
WindowVals ==
    {IntV(7), Str(<<"1", "2">>), Str(<<"1", "w">>),
     Interp(<<"model", "max_depth">>), Interp(<<"model", "depth">>)}
NumEstimatorsVals == {IntV(100), Str(<<"m", "a", "n", "y">>)}
MaxDepthVals == {IntV(3), FloatV(3, 2), Interp(<<"model", "num_estimators">>)}
ExtraVals == {IntV(1)}

\* the mapping of the pairs <<key, value>> whose value is not Absent
Mapping(pairs) ==
    LET present == {i \in 1..Len(pairs) : pairs[i][2] # Absent}
    IN  [k \in {pairs[i][1] : i \in present} |->
            pairs[CHOOSE i \in present : pairs[i][1] = k][2]]

OrAbsent(S) == S \cup {Absent}

DataSections ==
    {Dict(Mapping(<< <<"data_format", a>>, <<"input_path", b>>,
                     <<"start_date", c>>, <<"window", d>>, <<"sep", e>> >>)) :
        a \in OrAbsent(DataFormatVals), b \in OrAbsent(InputPathVals),
        c \in OrAbsent(StartDateVals), d \in OrAbsent(WindowVals),
        e \in OrAbsent(ExtraVals)}
    \cup {IntV(5)}

ModelSections ==
    {Dict(Mapping(<< <<"num_estimators", a>>, <<"max_depth", b>>,
                     <<"seed", e>> >>)) :
        a \in OrAbsent(NumEstimatorsVals), b \in OrAbsent(MaxDepthVals),
        e \in OrAbsent(ExtraVals)}
    \cup {NoneV}

Trees ==
    {Dict(Mapping(<< <<"data", a>>, <<"model", b>>, <<"verbose", e>> >>)) :
        a \in OrAbsent(DataSections), b \in OrAbsent(ModelSections),
        e \in OrAbsent(ExtraVals)}

----------------------------------------------------------------------------
(* main *)

Init ==
    /\ pc = "start"
    /\ cla \in Trees
    /\ input = NoValue
    /\ log = <<>>
    /\ failure = NoFailure
    /\ attempts = 0
    /\ op = NoOp

\* (mutant) main without the call of OmegaConf.resolve
Resolve_skipped ==
    /\ pc = "start"
    /\ pc' = "resolved"
    /\ UNCHANGED <<cla, input, log, failure, attempts, op>>

\* line 34: OmegaConf.resolve(cla), in place
Resolve ==
    /\ pc = "start"
    /\ LET r == resolve(cla)
       IN  IF Holds(r, "unset")
           THEN /\ pc' = "aborted"
                /\ failure' = [kind |-> "InterpolationKeyError", errs |-> {}]
                /\ cla' = cla
           ELSE /\ pc' = "resolved"
                /\ failure' = failure
                /\ cla' = r
    /\ UNCHANGED <<input, log, attempts, op>>

\* line 35: logging.info("Loaded Config:\n" + OmegaConf.to_yaml(cla))
LogLoaded ==
    /\ pc = "resolved"
    /\ log' = Append(log, LogRecord("info", <<"Loaded Config:", to_yaml(cla)>>))
    /\ pc' = "dumped"
    /\ UNCHANGED <<cla, input, failure, attempts, op>>

\* (mutant) main going on after a validation failure
Validate_swallowed ==
    /\ pc = "dumped"
    /\ input' = cla
    /\ attempts' = attempts + 1
    /\ LET r == ProjectConfig(cla.d)
       IN  /\ cla' = IF r.errs = {} THEN r.val ELSE cla
           /\ pc' = "validated"
           /\ failure' = IF r.errs = {} THEN failure
                         ELSE [kind |-> "ValidationError", errs |-> r.errs]
    /\ UNCHANGED <<log, op>>

\* line 37: cla = ProjectConfig(**cla)
Validate ==
    /\ pc = "dumped"
    /\ input' = cla
    /\ attempts' = attempts + 1
    /\ LET r == ProjectConfig(cla.d)
       IN  IF r.errs = {}
           THEN /\ cla' = r.val
                /\ pc' = "validated"
                /\ failure' = failure
           ELSE /\ cla' = cla
                /\ pc' = "aborted"
                /\ failure' = [kind |-> "ValidationError", errs |-> r.errs]
    /\ UNCHANGED <<log, op>>

\* line 38: logging.info(f"cla pydantic: {cla}")
LogPydantic ==
    /\ pc = "validated"
    /\ log' = Append(log, LogRecord("info", <<"cla pydantic: ", cla>>))
    /\ pc' = "reported"
    /\ UNCHANGED <<cla, input, failure, attempts, op>>

\* line 40: logging.critical("I am a Critical Message!")
Critical ==
    /\ pc = "reported"
    /\ log' = Append(log, LogRecord("critical", <<"I am a Critical Message!">>))
    /\ pc' = "critical"
    /\ UNCHANGED <<cla, input, failure, attempts, op>>

\* line 41: logging.error("I am an Error Message!")
Error ==
    /\ pc = "critical"
    /\ log' = Append(log, LogRecord("error", <<"I am an Error Message!">>))
    /\ pc' = "error"
    /\ UNCHANGED <<cla, input, failure, attempts, op>>

\* line 42: logging.warning("I am a Warning Message!")
Warning ==
    /\ pc = "error"
    /\ log' = Append(log, LogRecord("warning", <<"I am a Warning Message!">>))
    /\ pc' = "warning"
    /\ UNCHANGED <<cla, input, failure, attempts, op>>

\* line 43: logging.debug("I am a Debug Message.")
Debug ==
    /\ pc = "warning"
    /\ log' = Append(log, LogRecord("debug", <<"I am a Debug Message.">>))
    /\ pc' = "done"
    /\ UNCHANGED <<cla, input, failure, attempts, op>>

main ==
    \/ Resolve
    \/ LogLoaded
    \/ Validate
    \/ LogPydantic
    \/ Critical
    \/ Error
    \/ Warning
    \/ Debug

Next == main

Spec == Init /\ [][Next]_vars

----------------------------------------------------------------------------
(* Assignment to a field of a constructed record (validate_assignment=True) *)

FieldType(fields, name) ==
    fields[CHOOSE i \in 1..Len(fields) : fields[i][1] = name][2]

\* (mutant) validate_assignment=False: the value is stored as given
setattr_unvalidated(fields, obj, name, value) ==
    IF name \notin FieldNames(fields)
    THEN [errs |-> {Err(<<name>>, "no_such_attribute")}, val |-> obj]
    ELSE Ok([obj EXCEPT !.f[name] = value])

\* obj.name = value on an instance of a BaseConfig class: an undeclared name
\* is refused; a declared one is validated as its field's type, and the
\* instance takes the validated value only when that succeeds.
setattr(fields, obj, name, value) ==
    IF name \notin FieldNames(fields)
    THEN [errs |-> {Err(<<name>>, "no_such_attribute")}, val |-> obj]
    ELSE LET r == validate(FieldType(fields, name), value)
         IN  IF r.errs = {}
             THEN Ok([obj EXCEPT !.f[name] = r.val])
             ELSE [errs |-> Under(<<name>>, r.errs), val |-> obj]

Outcome(r) ==
    IF r.errs = {} THEN NoFailure
    ELSE IF \E e \in r.errs : e.type = "no_such_attribute"
         THEN [kind |-> "ValueError", errs |-> r.errs]
         ELSE [kind |-> "ValidationError", errs |-> r.errs]

\* the records construction can return
Records ==
    {ProjectConfig(resolve(t).d).val :
        t \in {u \in Trees : /\ ~Holds(resolve(u), "unset")
                             /\ ProjectConfig(resolve(u).d).errs = {}}}

\* DataConfig instances built elsewhere, to be assigned to cla.data
Instances == {r.f.data : r \in {q \in Records : q.f.data.f.window = IntV(7)}}

AssignedVals(name) ==
    CASE name = "data_format" -> DataFormatVals \cup {NoneV}
      [] name = "input_path" -> InputPathVals \cup {PathV(P_FILE), PathV(P_GONE)}
      [] name = "start_date" -> StartDateVals \cup {DateV(2024, 1, 31)}
      [] name = "window" -> {IntV(7), Str(<<"1", "2">>), Str(<<"1", "w">>), NoneV}
      [] name = "num_estimators" -> NumEstimatorsVals
      [] name = "max_depth" -> {IntV(3), FloatV(3, 2), FloatV(4, 2)}
      [] name = "data" ->
           {IntV(5),
            Dict(Mapping(<< <<"data_format", Str(S_SAP)>>, <<"input_path", Str(P_DIR)>>,
                            <<"start_date", Str(<<"s", "o", "o", "n">>)>>,
                            <<"window", IntV(7)>> >>)),
            Dict(Mapping(<< <<"data_format", Str(S_SAP)>>, <<"input_path", Str(P_DIR)>>,
                            <<"start_date", DateV(2024, 1, 31)>>,
                            <<"window", Str(<<"1", "2">>)>> >>))}
      [] name = "model" ->
           {NoneV,
            Dict(Mapping(<< <<"num_estimators", IntV(100)>> >>)),
            Dict(Mapping(<< <<"num_estimators", IntV(100)>>,
                            <<"max_depth", FloatV(4, 2)>> >>))}
      [] OTHER -> ExtraVals

InitRecord ==
    /\ pc = "record"
    /\ cla \in Records
    /\ input = NoValue
    /\ log = <<>>
    /\ failure = NoFailure
    /\ attempts = 1
    /\ op = NoOp

\* cla.data.<name> = value
AssignData ==
    /\ pc = "record"
    /\ \E name \in FieldNames(DataConfigFields) \cup {"sep"} :
        \E value \in AssignedVals(name) :
            LET r == setattr(DataConfigFields, cla.f.data, name, value)
            IN  /\ cla' = [cla EXCEPT !.f.data = r.val]
                /\ failure' = Outcome(r)
                /\ op' = [kind |-> "setattr", on |-> "data", name |-> name,
                          value |-> value, before |-> cla]
    /\ UNCHANGED <<pc, input, log, attempts>>

\* cla.model.<name> = value
AssignModel ==
    /\ pc = "record"
    /\ \E name \in FieldNames(ModelConfigFields) \cup {"seed"} :
        \E value \in AssignedVals(name) :
            LET r == setattr(ModelConfigFields, cla.f.model, name, value)
            IN  /\ cla' = [cla EXCEPT !.f.model = r.val]
                /\ failure' = Outcome(r)
                /\ op' = [kind |-> "setattr", on |-> "model", name |-> name,
                          value |-> value, before |-> cla]
    /\ UNCHANGED <<pc, input, log, attempts>>

\* cla.<name> = value
AssignProject ==
    /\ pc = "record"
    /\ \E name \in FieldNames(ProjectConfigFields) \cup {"verbose"} :
        \E value \in AssignedVals(name) \cup
                     (IF name = "data" THEN Instances ELSE {}) :
            LET r == setattr(ProjectConfigFields, cla, name, value)
            IN  /\ cla' = r.val
                /\ failure' = Outcome(r)
                /\ op' = [kind |-> "setattr", on |-> "", name |-> name,
                          value |-> value, before |-> cla]
    /\ UNCHANGED <<pc, input, log, attempts>>

NextRecord ==
    \/ AssignData
    \/ AssignModel
    \/ AssignProject

SpecRecord == InitRecord /\ [][NextRecord]_vars

----------------------------------------------------------------------------
(* What the claims speak of *)

DataNames == {"data_format", "input_path", "start_date", "window"}
ModelNames == {"num_estimators", "max_depth"}
SectionNames == {"data", "model"}
Declared(on) ==
    CASE on = "data" -> DataNames [] on = "model" -> ModelNames [] OTHER -> SectionNames

\* the strings among the inputs that name a calendar day
CalendarDays ==
    {<<"2", "0", "2", "0", "-", "0", "2", "-", "2", "9">>,
     <<"2", "0", "1", "9", "-", "1", "2", "-", "3", "1">>}

DigitChar == <<"0", "1", "2", "3", "4", "5", "6", "7", "8", "9">>

RECURSIVE Digits(_, _)
Digits(n, width) ==
    IF width = 0 THEN <<>>
    ELSE Append(Digits(n \div 10, width - 1), DigitChar[(n % 10) + 1])

\* date.isoformat()
isoformat(dt) == Digits(dt.y, 4) \o <<"-">> \o Digits(dt.m, 2) \o <<"-">> \o Digits(dt.d, 2)

Ran == input # NoValue
Failed == failure.kind = "ValidationError"
Succeeded == Ran /\ failure.kind = "none"

Section(name) == IF name \in DOMAIN input.d THEN input.d[name] ELSE Absent
IsMap(v) == v.t = "dict"
Has(sec, key) == IsMap(Section(sec)) /\ key \in DOMAIN Section(sec).d
At(sec, key) == Section(sec).d[key]

StartsWith(loc, prefix) ==
    Len(loc) >= Len(prefix) /\ SubSeq(loc, 1, Len(prefix)) = prefix
Reported(loc) == \E e \in failure.errs : StartsWith(e.loc, loc)

\* a value that does not meet the declaration of the field
IntLike(v) ==
    \/ v.t = "int"
    \/ v.t = "str" /\ v.s # <<>> /\ \A i \in 1..Len(v.s) : \E d \in 1..10 : v.s[i] = DigitChar[d]
    \/ v.t = "float" /\ v.num % v.den = 0

Violates(name, v) ==
    CASE name = "data_format" -> v \notin {Str(S_DB), Str(S_SAP)}
      [] name = "input_path" ->
            ~(v.t \in {"str", "path"} /\ (is_dir(v.s) \/ is_file(v.s)))
      [] name = "start_date" ->
            ~(v.t = "date" \/ (v.t = "str" /\ v.s \in CalendarDays))
      [] OTHER -> ~IntLike(v)

\* the offending places of a mapping given for a section, with the reason
SectionViolations(sec, v) ==
    {[path |-> <<sec, k>>, why |-> "missing"] : k \in Declared(sec) \ DOMAIN v.d}
    \cup {[path |-> <<sec, k>>, why |-> "extra"] : k \in DOMAIN v.d \ Declared(sec)}
    \cup {[path |-> <<sec, k>>, why |-> "value"] :
            k \in {x \in DOMAIN v.d \cap Declared(sec) : Violates(x, v.d[x])}}

Violations(tree) ==
    {[path |-> <<s>>, why |-> "missing"] : s \in SectionNames \ DOMAIN tree.d}
    \cup {[path |-> <<k>>, why |-> "extra"] : k \in DOMAIN tree.d \ SectionNames}
    \cup {[path |-> <<s>>, why |-> "value"] :
            s \in {x \in DOMAIN tree.d \cap SectionNames : ~IsMap(tree.d[x])}}
    \cup UNION {SectionViolations(s, tree.d[s]) :
            s \in {x \in DOMAIN tree.d \cap SectionNames : IsMap(tree.d[x])}}

Why(type) ==
    CASE type = "missing" -> "missing"
      [] type = "extra_forbidden" -> "extra"
      [] OTHER -> "value"

FieldPath(loc) ==
    IF Len(loc) >= 2 /\ loc[1] \in SectionNames THEN SubSeq(loc, 1, 2)
    ELSE SubSeq(loc, 1, 1)

ReportedSet == {[path |-> FieldPath(e.loc), why |-> Why(e.type)] : e \in failure.errs}

ValidData(r) ==
    /\ r.t = "DataConfig"
    /\ DOMAIN r.f = DataNames
    /\ r.f.data_format \in {Str(S_DB), Str(S_SAP)}
    /\ r.f.input_path.t = "path"
    /\ is_dir(r.f.input_path.s) \/ is_file(r.f.input_path.s)
    /\ r.f.start_date.t = "date"
    /\ r.f.start_date.m \in 1..12
    /\ r.f.start_date.d \in 1..DaysInMonth(r.f.start_date.y, r.f.start_date.m)
    /\ r.f.window.t = "int"

ValidModel(r) ==
    /\ r.t = "ModelConfig"
    /\ DOMAIN r.f = ModelNames
    /\ r.f.num_estimators.t = "int"
    /\ r.f.max_depth.t = "int"

ValidRecord(r) ==
    /\ r.t = "ProjectConfig"
    /\ DOMAIN r.f = SectionNames
    /\ ValidData(r.f.data)
    /\ ValidModel(r.f.model)

\* a tree with exactly the declared fields, each as the loader holds a
\* correct value of it
Conforming ==
    /\ Ran
    /\ DOMAIN input.d = SectionNames
    /\ IsMap(Section("data")) /\ DOMAIN Section("data").d = DataNames
    /\ IsMap(Section("model")) /\ DOMAIN Section("model").d = ModelNames
    /\ At("data", "data_format") \in {Str(S_DB), Str(S_SAP)}
    /\ At("data", "input_path").t = "str"
    /\ is_dir(At("data", "input_path").s) \/ is_file(At("data", "input_path").s)
    /\ At("data", "start_date").t = "str"
    /\ At("data", "start_date").s \in CalendarDays
    /\ At("data", "window").t = "int"
    /\ At("model", "num_estimators").t = "int"
    /\ At("model", "max_depth").t = "int"

----------------------------------------------------------------------------
(* Claims *)

\* C1, as stated: for a tree with exactly the declared fields, all correct,
\* construction succeeds and every field of the record equals the value the
\* tree held for it.
C1_FieldsEqualInput ==
    Conforming =>
        /\ Succeeded
        /\ cla.t = "ProjectConfig"
        /\ \A k \in DataNames : cla.f.data.f[k] = At("data", k)
        /\ \A k \in ModelNames : cla.f.model.f[k] = At("model", k)

\* C1, amended: for such a tree construction succeeds and the record holds
\* exactly the declared fields; data_format, window, num_estimators and
\* max_depth equal the tree's values, input_path is the Path of the tree's
\* string and start_date is the date whose ISO text is the tree's string.
C1_FieldsConverted ==
    Conforming =>
        /\ Succeeded
        /\ cla.t = "ProjectConfig" /\ DOMAIN cla.f = SectionNames
        /\ cla.f.data.t = "DataConfig" /\ DOMAIN cla.f.data.f = DataNames
        /\ cla.f.model.t = "ModelConfig" /\ DOMAIN cla.f.model.f = ModelNames
        /\ cla.f.data.f.data_format = At("data", "data_format")
        /\ cla.f.data.f.input_path = PathV(At("data", "input_path").s)
        /\ cla.f.data.f.start_date.t = "date"
        /\ isoformat(cla.f.data.f.start_date) = At("data", "start_date").s
        /\ cla.f.data.f.window = At("data", "window")
        /\ \A k \in ModelNames : cla.f.model.f[k] = At("model", k)

C1_Witness ==
    /\ Conforming /\ Succeeded /\ pc = "validated"
    /\ At("data", "input_path") = Str(P_FILE)

\* C2: a required field (data, model, or a field of a section that is given
\* as a mapping) that the tree omits makes validation fail with a "missing"
\* error at that field; a record is only returned when the tree held every
\* field.
C2_MissingIsNamed ==
    Ran =>
        /\ \A s \in SectionNames \ DOMAIN input.d :
              Failed /\ Err(<<s>>, "missing") \in failure.errs
        /\ \A s \in SectionNames : IsMap(Section(s)) =>
              \A k \in Declared(s) \ DOMAIN Section(s).d :
                  Failed /\ Err(<<s, k>>, "missing") \in failure.errs
        /\ Succeeded =>
              /\ SectionNames \subseteq DOMAIN input.d
              /\ \A s \in SectionNames : Declared(s) \subseteq DOMAIN Section(s).d

C2_Witness ==
    /\ Failed
    /\ Err(<<"model">>, "missing") \in failure.errs
    /\ Err(<<"data", "start_date">>, "missing") \in failure.errs

\* C3: a key the schema does not declare, at the top level or inside data or
\* model, makes validation fail with an "extra_forbidden" error at that key.
C3_ExtraIsForbidden ==
    Ran =>
        /\ \A k \in DOMAIN input.d \ SectionNames :
              Failed /\ Err(<<k>>, "extra_forbidden") \in failure.errs
        /\ \A s \in SectionNames : IsMap(Section(s)) =>
              \A k \in DOMAIN Section(s).d \ Declared(s) :
                  Failed /\ Err(<<s, k>>, "extra_forbidden") \in failure.errs

\* every declared field is present and valid, and the only failure is the
\* extra key
C3_Witness ==
    /\ Failed
    /\ failure.errs = {Err(<<"model", "seed">>, "extra_forbidden")}

\* C4: a data_format other than "DB" and "SAP" makes validation fail with an
\* error at data.data_format; "DB" and "SAP" raise no error there.
C4_DataFormatLiteral ==
    (Ran /\ Has("data", "data_format")) =>
        IF At("data", "data_format") \in {Str(S_DB), Str(S_SAP)}
        THEN ~Reported(<<"data", "data_format">>)
        ELSE Failed /\ Err(<<"data", "data_format">>, "literal_error") \in failure.errs

C4_Witness ==
    /\ Failed
    /\ failure.errs = {Err(<<"data", "data_format">>, "literal_error")}

\* C5: an input_path that names no existing location makes validation fail
\* with an error at data.input_path.
C5_InputPathMustExist ==
    (/\ Ran /\ Has("data", "input_path")
     /\ At("data", "input_path").t = "str"
     /\ ~exists(At("data", "input_path").s)) =>
        Failed /\ Reported(<<"data", "input_path">>)

C5_Witness ==
    /\ Failed
    /\ Has("data", "input_path")
    /\ At("data", "input_path") = Str(P_GONE)
    /\ \A e \in failure.errs : StartsWith(e.loc, <<"data", "input_path">>)

\* C6: validation fails exactly when some field offends, and the failure
\* then reports every offending field (path and reason), not the first only.
C6_AllViolationsReported ==
    Ran =>
        /\ ReportedSet = Violations(input)
        /\ Failed <=> Violations(input) # {}

C6_Witness ==
    /\ Failed
    /\ Cardinality(Violations(input)) >= 4
    /\ \E a, b, c \in ReportedSet :
          /\ a.path[1] = "data" /\ a.why = "missing"
          /\ b.path[1] = "model" /\ b.why = "value"
          /\ c.why = "extra"

\* C7: on a constructed record every assignment leaves a valid record: a
\* value that does not meet the field's declaration is refused with a
\* validation failure naming the field, an undeclared name is refused, and a
\* refused assignment leaves the record as it was.
C7_AssignmentKeepsValid ==
    /\ ValidRecord(cla)
    /\ op.kind = "setattr" =>
          /\ failure.kind # "none" => cla = op.before
          /\ op.name \notin Declared(op.on) => failure.kind # "none"
          /\ (op.name \in DataNames \cup ModelNames /\ Violates(op.name, op.value)) =>
                failure.kind = "ValidationError" /\ Reported(<<op.name>>)
          /\ (/\ op.name \in SectionNames
              /\ \/ op.value.t \notin {"dict", "DataConfig", "ModelConfig"}
                 \/ IsMap(op.value) /\ SectionViolations(op.name, op.value) # {}) =>
                failure.kind = "ValidationError" /\ Reported(<<op.name>>)

\* a record already changed by an assignment refuses a bad data_format
C7_Witness ==
    /\ op.kind = "setattr" /\ op.on = "data" /\ op.name = "data_format"
    /\ failure.kind = "ValidationError"
    /\ cla.f.data.f.start_date = DateV(2024, 1, 31)
    /\ cla = op.before

FixedMessages ==
    {"I am a Critical Message!", "I am an Error Message!",
     "I am a Warning Message!", "I am a Debug Message."}

\* C8: validation is evaluated at most once; a run that is past validation
\* holds a full ProjectConfig, and a run whose validation failed has stopped
\* there, holds no record, and has logged neither the typed record nor any
\* of the fixed messages.
C8_NoPartialSuccess ==
    /\ attempts <= 1
    /\ Failed =>
          /\ pc = "aborted"
          /\ cla.t # "ProjectConfig"
          /\ \A i \in 1..Len(log) :
                log[i].msg[1] # "cla pydantic: " /\ log[i].msg[1] \notin FixedMessages
    /\ pc = "aborted" =>
          /\ failure.kind \in {"InterpolationKeyError", "ValidationError"}
          /\ ~ENABLED Next
    /\ pc \in {"validated", "reported", "critical", "error", "warning", "done"} =>
          failure.kind = "none" /\ ValidRecord(cla)

C8_Witness ==
    /\ Failed /\ pc = "aborted" /\ attempts = 1
    /\ Len(log) = 1 /\ log[1].msg[1] = "Loaded Config:"

ExpectedLog ==
    << <<"info", "Loaded Config:">>,
       <<"info", "cla pydantic: ">>,
       <<"critical", "I am a Critical Message!">>,
       <<"error", "I am an Error Message!">>,
       <<"warning", "I am a Warning Message!">>,
       <<"debug", "I am a Debug Message.">> >>

Severity(level) ==
    CASE level = "critical" -> 4
      [] level = "error" -> 3
      [] level = "warning" -> 2
      [] level = "debug" -> 1

\* how many logging calls a run at this position has made
Logged ==
    CASE pc \in {"start", "resolved"} -> 0
      [] pc \in {"dumped", "validated"} -> 1
      [] pc = "reported" -> 2
      [] pc = "critical" -> 3
      [] pc = "error" -> 4
      [] pc = "warning" -> 5
      [] pc = "done" -> 6
      [] pc = "aborted" -> IF Failed THEN 1 ELSE 0

\* C9: the logging calls of every run are a prefix of: tree dump, typed
\* record, critical, error, warning, debug; a finished run has made all six;
\* the dumped tree holds no interpolation and is the tree then validated;
\* the dump is there also when validation fails.
C9_FixedOrder ==
    /\ Len(log) = Logged
    /\ \A i \in 1..Len(log) : <<log[i].level, log[i].msg[1]>> = ExpectedLog[i]
    /\ \A i, j \in 3..Len(log) :
          i < j => Severity(log[i].level) > Severity(log[j].level)
    /\ Len(log) >= 1 => ~Holds(log[1].msg[2].doc, "interp")
    /\ Ran => /\ ~Holds(input, "interp")
              /\ Len(log) >= 1 /\ log[1].msg[2] = to_yaml(input)
    /\ Len(log) >= 2 => log[2].msg[2] = cla /\ cla.t = "ProjectConfig"
    /\ pc = "done" => Len(log) = 6 /\ Succeeded

\* a finished run whose window was an interpolation of model.max_depth
C9_Witness ==
    /\ pc = "done"
    /\ Len(log) = 6
    /\ At("data", "window") = IntV(3)
    /\ cla.f.data.f.window = IntV(3)

\* C10: for a string input_path, an error is raised at data.input_path
\* exactly when the location is neither an existing directory nor an
\* existing regular file, whatever data_format is.
C10_PathKindFree ==
    (Ran /\ Has("data", "input_path") /\ At("data", "input_path").t = "str") =>
        /\ Reported(<<"data", "input_path">>) <=>
              ~(is_dir(At("data", "input_path").s) \/ is_file(At("data", "input_path").s))
        /\ \A fmt \in {Str(S_DB), Str(S_SAP)} :
              (/\ Has("data", "data_format") /\ At("data", "data_format") = fmt
               /\ exists(At("data", "input_path").s)
               /\ At("data", "input_path").s # P_FIFO) =>
                  /\ ~Reported(<<"data", "input_path">>)
                  /\ ~Reported(<<"data", "data_format">>)

C10_Witness ==
    /\ Succeeded
    /\ At("data", "data_format") = Str(S_SAP)
    /\ At("data", "input_path") = Str(P_DIR)
    /\ cla.f.data.f.input_path = PathV(P_DIR)

====
